---- MODULE Spec2Model ----
(***************************************************************************)
(* Velocity dashboard (src/app.py): the numeric pipeline of the script.    *)
(*                                                                         *)
(*   get_index_data -> calculate_velocity -> dropna -> line_chart ->       *)
(*   dataframe -> to_excel/download_button -> iloc[-1] ->                  *)
(*   get_trading_recommendation                                            *)
(*                                                                         *)
(* The columns of the DataFrame hold binary64 floats; the arithmetic of    *)
(* calculate_velocity is modelled bit for bit (each operation rounds to    *)
(* nearest, ties to even), on top of naturals of any size.                 *)
(***************************************************************************)
EXTENDS Integers, Sequences, FiniteSets, TLC

VARIABLES source, data, pc, chart, table, artifact, latest_data,
          velocity, recommendation, emitted

vars == <<source, data, pc, chart, table, artifact, latest_data,
          velocity, recommendation, emitted>>

(***************************************************************************)
(* Program constants: the three lookback windows of calculate_velocity.    *)
(***************************************************************************)
W240 == 240
W480 == 480
W1200 == 1200

(***************************************************************************)
(* Bounds of the model.                                                    *)
(***************************************************************************)
\* the shortest series fetched has W1200 - ShortBy records
ShortBy == 1
\* the longest series fetched has W1200 + ExtraLen records
ExtraLen == 3
\* a series has at most MaxDev irregularities: a place where its price
\* pattern differs from BasePattern, or a day with a missing Open quote
MaxDev == 2
\* classifier probes include the floats n/d, |n| <= ProbeMax, 1 <= d <= ProbeDen
ProbeMax == 155
ProbeDen == 2

\* close prices a series is built from (0 is the degenerate zero price)
Prices == {0, 100, 200, 300}
\* the closes of a series repeat with the period of BasePattern, which no
\* lookback window is a multiple of
BasePattern == <<200, 200, 200, 200, 200, 200, 200>>

(***************************************************************************)
(* Natural numbers of any size: little-endian sequences of limbs below     *)
(* Base = 2^LimbBits, without leading zero limbs (0 is <<>>).              *)
(***************************************************************************)
LimbBits == 14
Base == 2 ^ LimbBits

Abs(n) == IF n < 0 THEN -n ELSE n
Sign(n) == IF n < 0 THEN -1 ELSE IF n > 0 THEN 1 ELSE 0
Max(a, b) == IF a < b THEN b ELSE a
Min(a, b) == IF a < b THEN a ELSE b

RECURSIVE NatOfInt(_)
NatOfInt(n) == IF n = 0 THEN <<>> ELSE <<n % Base>> \o NatOfInt(n \div Base)

RECURSIVE NatTrim(_)
NatTrim(a) ==
    IF a = <<>> \/ a[Len(a)] # 0 THEN a ELSE NatTrim(SubSeq(a, 1, Len(a) - 1))

Limb0(a) == IF a = <<>> THEN 0 ELSE a[1]
Rest(a) == IF a = <<>> THEN <<>> ELSE Tail(a)

RECURSIVE NatAddC(_, _, _)
NatAddC(a, b, c) ==
    IF a = <<>> /\ b = <<>> THEN NatOfInt(c)
    ELSE LET x == Limb0(a) + Limb0(b) + c
         IN  <<x % Base>> \o NatAddC(Rest(a), Rest(b), x \div Base)

NatAdd(a, b) == NatAddC(a, b, 0)

\* a - b - w for a >= b + w
RECURSIVE NatSubB(_, _, _)
NatSubB(a, b, w) ==
    IF a = <<>> THEN <<>>
    ELSE LET x == a[1] - Limb0(b) - w
         IN  <<IF x < 0 THEN x + Base ELSE x>>
                 \o NatSubB(Tail(a), Rest(b), IF x < 0 THEN 1 ELSE 0)

NatSub(a, b) == NatTrim(NatSubB(a, b, 0))

RECURSIVE NatCmpFrom(_, _, _)
NatCmpFrom(a, b, i) ==
    IF i = 0 THEN 0
    ELSE IF a[i] # b[i] THEN (IF a[i] < b[i] THEN -1 ELSE 1)
    ELSE NatCmpFrom(a, b, i - 1)

\* -1, 0, 1 as a < b, a = b, a > b
NatCmp(a, b) ==
    IF Len(a) # Len(b) THEN (IF Len(a) < Len(b) THEN -1 ELSE 1)
    ELSE NatCmpFrom(a, b, Len(a))

\* a * k + c for limbs k and c
RECURSIVE NatMulSmallC(_, _, _)
NatMulSmallC(a, k, c) ==
    IF a = <<>> THEN NatOfInt(c)
    ELSE LET x == a[1] * k + c
         IN  <<x % Base>> \o NatMulSmallC(Tail(a), k, x \div Base)

NatMulSmall(a, k) == NatTrim(NatMulSmallC(a, k, 0))

RECURSIVE NatMul(_, _)
NatMul(a, b) ==
    IF a = <<>> \/ b = <<>> THEN <<>>
    ELSE LET hi == NatMul(a, Tail(b))
         IN  NatAdd(NatMulSmall(a, b[1]),
                    IF hi = <<>> THEN <<>> ELSE <<0>> \o hi)

RECURSIVE Zeros(_)
Zeros(n) == IF n = 0 THEN <<>> ELSE <<0>> \o Zeros(n - 1)

\* a * 2^n
NatShl(a, n) ==
    IF a = <<>> THEN <<>>
    ELSE Zeros(n \div LimbBits) \o NatMulSmall(a, 2 ^ (n % LimbBits))

\* <<a \div d, a % d # 0>> for a divisor d of one limb
RECURSIVE NatDivSmallFrom(_, _, _, _)
NatDivSmallFrom(a, d, i, r) ==
    IF i = 0 THEN <<<<>>, r # 0>>
    ELSE LET cur  == r * Base + a[i]
             rest == NatDivSmallFrom(a, d, i - 1, cur % d)
         IN  <<Append(rest[1], cur \div d), rest[2]>>

NatDivSmall(a, d) ==
    LET qr == NatDivSmallFrom(a, d, Len(a), 0)
    IN  <<NatTrim(qr[1]), qr[2]>>

\* a \div 2^n
NatShr(a, n) ==
    IF n \div LimbBits >= Len(a) THEN <<>>
    ELSE NatDivSmall(SubSeq(a, (n \div LimbBits) + 1, Len(a)),
                     2 ^ (n % LimbBits))[1]

\* a % 2^n # 0
NatLowBits(a, n) ==
    LET q == n \div LimbBits
    IN  \/ \E i \in 1..Len(a) : i <= q /\ a[i] # 0
        \/ q + 1 <= Len(a) /\ a[q + 1] % (2 ^ (n % LimbBits)) # 0

\* bit i of a (bit 0 is the lowest)
NatBit(a, i) ==
    LET q == i \div LimbBits
    IN  IF q + 1 > Len(a) THEN 0
        ELSE (a[q + 1] \div (2 ^ (i % LimbBits))) % 2

\* the number of bits of a
NatBitLen(a) ==
    IF a = <<>> THEN 0
    ELSE (Len(a) - 1) * LimbBits
           + (CHOOSE k \in 1..LimbBits :
                 2 ^ (k - 1) <= a[Len(a)] /\ a[Len(a)] < 2 ^ k)

\* the number of zero bits a # 0 ends with
NatTrailingZeros(a) ==
    LET i == CHOOSE i \in 1..Len(a) : a[i] # 0 /\ \A j \in 1..(i - 1) : a[j] = 0
    IN  (i - 1) * LimbBits
          + (CHOOSE k \in 0..(LimbBits - 1) :
                a[i] % (2 ^ k) = 0 /\ (a[i] \div (2 ^ k)) % 2 = 1)

\* the largest k in lo..hi with d * k <= r, found by bisection
RECURSIVE NatDigit(_, _, _, _)
NatDigit(r, d, lo, hi) ==
    IF lo = hi THEN lo
    ELSE LET mid == (lo + hi + 1) \div 2
         IN  IF NatCmp(NatMulSmall(d, mid), r) <= 0
             THEN NatDigit(r, d, mid, hi)
             ELSE NatDigit(r, d, lo, mid - 1)

\* schoolbook division limb by limb: limbs i..1 of n are still to come and
\* r < d is the remainder of the limbs above them
RECURSIVE NatLongDiv(_, _, _, _)
NatLongDiv(n, d, i, r) ==
    IF i = 0 THEN <<<<>>, r # <<>>>>
    ELSE LET cur  == NatTrim(<<n[i]>> \o r)
             k    == NatDigit(cur, d, 0, Base - 1)
             rest == NatLongDiv(n, d, i - 1, NatSub(cur, NatMulSmall(d, k)))
         IN  <<Append(rest[1], k), rest[2]>>

\* <<n \div d, n % d # 0>>
NatDivMod(n, d) ==
    IF Len(d) = 1 THEN NatDivSmall(n, d[1])
    ELSE LET qr == NatLongDiv(n, d, Len(n), <<>>)
         IN  <<NatTrim(qr[1]), qr[2]>>

(***************************************************************************)
(* binary64.  A float is <<s, m, e>>:                                      *)
(*   s in {-1, 1}, m an odd natural of at most Precision bits, e >= MinExp *)
(*   and s * m * 2^e below 2^MaxExp in magnitude: the double s * m * 2^e   *)
(*   (normal or subnormal)                                                 *)
(*   <<1, <<>>, 0>>   +0.0     <<-1, <<>>, 0>>   -0.0                      *)
(*   <<1, <<>>, 1>>   +inf     <<-1, <<>>, 1>>   -inf                      *)
(*   <<0, <<>>, 0>>   NaN                                                  *)
(* Every operation rounds its exact result to nearest, ties to even, as    *)
(* IEEE-754 does: to Precision bits, or to a multiple of 2^MinExp where    *)
(* the result is subnormal; a rounded result of 2^MaxExp or more is inf,   *)
(* one rounded to nothing is a zero of its sign.                           *)
(***************************************************************************)
Precision == 53
\* every double is a multiple of 2^MinExp
MinExp == -1074
\* every finite double is below 2^MaxExp in magnitude
MaxExp == 1024

Zero == <<1, <<>>, 0>>
NegZero == <<-1, <<>>, 0>>
NaN == <<0, <<>>, 0>>
PosInf == <<1, <<>>, 1>>
NegInf == <<-1, <<>>, 1>>

IsNaN(x) == x = NaN
IsInf(x) == x[1] # 0 /\ x[2] = <<>> /\ x[3] = 1
IsZero(x) == x[1] # 0 /\ x[2] = <<>> /\ x[3] = 0
IsFinite(x) == ~IsNaN(x) /\ ~IsInf(x)

\* the sign of the value of x: 0 for both zeros
SignOf(x) == IF IsZero(x) THEN 0 ELSE x[1]

\* s * m * 2^e, exactly representable but for its size: the trailing zero
\* bits of m moved into the exponent, inf when it is 2^MaxExp or more
Canon(s, m, e) ==
    IF m = <<>> THEN <<s, <<>>, 0>>
    ELSE IF e + NatBitLen(m) > MaxExp THEN <<s, <<>>, 1>>
    ELSE LET tz == NatTrailingZeros(m)
         IN  <<s, NatShr(m, tz), e + tz>>

\* s * (m + f) * 2^e, 0 <= f < 1 and f # 0 iff sticky, rounded to nearest
\* and ties to even: the sh low bits of m go, those beyond Precision and
\* those below 2^MinExp (sticky asks for sh >= 1: the bit that decides is
\* one of m)
Round(s, m, e, sticky) ==
    LET sh == Max(NatBitLen(m) - Precision, MinExp - e)
    IN  IF sh <= 0 THEN Canon(s, m, e)
        ELSE LET kept  == NatShr(m, sh)
                 guard == NatBit(m, sh - 1) = 1
                 rest  == sticky \/ NatLowBits(m, sh - 1)
                 up    == guard /\ (rest \/ NatBit(kept, 0) = 1)
             IN  Canon(s, IF up THEN NatAddC(kept, <<>>, 1) ELSE kept, e + sh)

\* the float of an integer
Fin(k) == IF k = 0 THEN Zero ELSE Round(Sign(k), NatOfInt(Abs(k)), 0, FALSE)

Neg(x) == <<-x[1], x[2], x[3]>>

\* the exponent of the bit above the leading bit of a finite x # 0
Top(x) == x[3] + NatBitLen(x[2])

\* -1, 0, 1 as x < y, x = y, x > y, for finite x and y (-0.0 = +0.0)
FCmp(x, y) ==
    IF SignOf(x) # SignOf(y) THEN Sign(SignOf(x) - SignOf(y))
    ELSE IF SignOf(x) = 0 THEN 0
    ELSE IF Top(x) # Top(y) THEN x[1] * Sign(Top(x) - Top(y))
    ELSE LET e == Min(x[3], y[3])
         IN  x[1] * NatCmp(NatShl(x[2], x[3] - e), NatShl(y[2], y[3] - e))

\* x + y for finite x, y # 0 with y below the last of Precision + 2 bits
\* added to x: y only tells on which side of x the sum lies
AddFar(x, y) ==
    LET m == NatShl(x[2], Precision + 2)
    IN  Round(x[1], IF x[1] = y[1] THEN m ELSE NatSub(m, <<1>>),
              x[3] - (Precision + 2), TRUE)

\* zeros of one sign add to that zero; a sum that cancels is +0.0
Add(x, y) ==
    IF IsNaN(y) \/ IsNaN(x) THEN NaN
    ELSE IF IsInf(x) /\ IsInf(y) THEN (IF x = y THEN x ELSE NaN)
    ELSE IF IsInf(x) THEN x
    ELSE IF IsInf(y) THEN y
    ELSE IF IsZero(x) /\ IsZero(y) THEN (IF x = y THEN x ELSE Zero)
    ELSE IF IsZero(x) THEN y
    ELSE IF IsZero(y) THEN x
    ELSE IF x[3] - y[3] > 2 * Precision + 2 THEN AddFar(x, y)
    ELSE IF y[3] - x[3] > 2 * Precision + 2 THEN AddFar(y, x)
    ELSE LET e  == Min(x[3], y[3])
             ax == NatShl(x[2], x[3] - e)
             ay == NatShl(y[2], y[3] - e)
             c  == NatCmp(ax, ay)
         IN  IF x[1] = y[1] THEN Round(x[1], NatAdd(ax, ay), e, FALSE)
             ELSE IF c = 0 THEN Zero
             ELSE IF c > 0 THEN Round(x[1], NatSub(ax, ay), e, FALSE)
             ELSE Round(y[1], NatSub(ay, ax), e, FALSE)

Sub(x, y) == Add(x, Neg(y))

\* the sign of a product is the product of the signs, zeros included
Mul(x, y) ==
    IF IsNaN(x) \/ IsNaN(y) THEN NaN
    ELSE IF IsInf(x) \/ IsInf(y)
         THEN (IF IsZero(x) \/ IsZero(y) THEN NaN ELSE <<x[1] * y[1], <<>>, 1>>)
    ELSE Round(x[1] * y[1], NatMul(x[2], y[2]), x[3] + y[3], FALSE)

\* x / 0 is inf and 0 / y is zero, of the product of the signs; 0 / 0 and
\* inf / inf are NaN
Div(x, y) ==
    IF IsNaN(x) \/ IsNaN(y) THEN NaN
    ELSE IF IsInf(y) THEN (IF IsInf(x) THEN NaN ELSE <<x[1] * y[1], <<>>, 0>>)
    ELSE IF IsZero(y) THEN (IF IsZero(x) THEN NaN ELSE <<x[1] * y[1], <<>>, 1>>)
    ELSE IF IsInf(x) THEN <<x[1] * y[1], <<>>, 1>>
    ELSE IF IsZero(x) THEN <<x[1] * y[1], <<>>, 0>>
    ELSE LET k  == Max(0, Precision + 2 + NatBitLen(y[2]) - NatBitLen(x[2]))
             qr == NatDivMod(NatShl(x[2], k), y[2])
         IN  Round(x[1] * y[1], qr[1], x[3] - y[3] - k, qr[2])

\* x > k and x <= k for an integer k; every comparison with NaN is false
Gt(x, k) ==
    IF IsNaN(x) THEN FALSE
    ELSE IF IsInf(x) THEN x[1] > 0
    ELSE FCmp(x, Fin(k)) > 0

Le(x, k) ==
    IF IsNaN(x) THEN FALSE
    ELSE IF IsInf(x) THEN x[1] < 0
    ELSE FCmp(x, Fin(k)) <= 0

(***************************************************************************)
(* get_index_data: the provider's history of the selected ticker, with the *)
(* columns yfinance returns and Date made a column by reset_index.         *)
(* source = [len, pat, gap]: len records, record i (0-based) dated day i   *)
(* in the exchange's time zone and closing at pat[(i % Len(pat)) + 1]; on  *)
(* the days of gap the provider has no Open quote (NaN).  The pipeline     *)
(* computes with Close only; the other columns matter to dropna, which     *)
(* looks at every column.                                                  *)
(***************************************************************************)
\* the float of each close price, computed once
Quote == [p \in Prices |-> Fin(p)]

History(s) ==
    [i \in 1..s.len |->
        LET close == Quote[s.pat[((i - 1) % Len(s.pat)) + 1]]
        IN  [Date        |-> [day |-> i - 1, tz |-> "America/New_York"],
             Open        |-> IF (i - 1) \in s.gap THEN NaN ELSE close,
             High        |-> close,
             Low         |-> close,
             Close       |-> close,
             Volume      |-> Zero,
             Dividends   |-> Zero,
             StockSplits |-> Zero]]

\* the places where a pattern differs from BasePattern
Deviations(p) == {k \in DOMAIN BasePattern : p[k] # BasePattern[k]}

\* the places of the pattern at which the record of index W1200 and the
\* bases of its three windows (days 0, W1200 - W480, W1200 - W240) close
KeyPlaces ==
    {(d % Len(BasePattern)) + 1 : d \in {0, W1200 - W480, W1200 - W240, W1200}}

\* a pattern deviates from BasePattern at key places only
Patterns ==
    {p \in [DOMAIN BasePattern -> Prices] :
        /\ Deviations(p) \subseteq KeyPlaces
        /\ Cardinality(Deviations(p)) <= MaxDev}

\* the days on which a record can have a velocity
GapDays == W1200..(W1200 + ExtraLen - 1)

Sources ==
    {s \in [len : (W1200 - ShortBy)..(W1200 + ExtraLen),
            pat : Patterns,
            gap : SUBSET GapDays] :
        /\ Cardinality(Deviations(s.pat)) + Cardinality(s.gap) <= MaxDev
        /\ \A g \in s.gap : g < s.len}

(***************************************************************************)
(* calculate_velocity                                                      *)
(***************************************************************************)
\* a shift by one period too few
Shift_one_short(d, w, i) == IF i > w - 1 THEN d[i - w + 1].Close ELSE NaN

\* data['Close'].shift(w) at position i (1-based)
Shift(d, w, i) == IF i > w THEN d[i - w].Close ELSE NaN

\* (close - base) / base * 100, three float operations
GrowthOf(close, base) == Mul(Div(Sub(close, base), base), Fin(100))

\* GrowthOf on the close prices of Prices, computed once
GrowthTable ==
    [close \in {Quote[p] : p \in Prices}, base \in {Quote[p] : p \in Prices} |->
        GrowthOf(close, base)]

\* (data['Close'] - data['Close'].shift(w)) / data['Close'].shift(w) * 100
Growth(d, w, i) ==
    LET close == d[i].Close
        base  == Shift(d, w, i)
    IN  IF <<close, base>> \in DOMAIN GrowthTable
        THEN GrowthTable[close, base]
        ELSE GrowthOf(close, base)

\* the mean taken as one sum and one division: (g240 + g480 + g1200) / 3
VelocityOf_mean(g240, g480, g1200) ==
    Div(Add(Add(g240, g480), g1200), Fin(3))

\* (g240 * 1/3) + (g480 * 1/3) + (g1200 * 1/3): g * 1/3 is (g * 1) / 3, and
\* the sum goes left to right; five roundings (g * 1 is exact)
VelocityOf(g240, g480, g1200) ==
    Add(Add(Div(Mul(g240, Fin(1)), Fin(3)),
            Div(Mul(g480, Fin(1)), Fin(3))),
        Div(Mul(g1200, Fin(1)), Fin(3)))

\* the four columns are assigned into the frame it was given: the other
\* columns stay, and a column already there is overwritten
calculate_velocity(d) ==
    [i \in 1..Len(d) |->
        LET g240  == Growth(d, W240, i)
            g480  == Growth(d, W480, i)
            g1200 == Growth(d, W1200, i)
        IN  [G240     |-> g240,
             G480     |-> g480,
             G1200    |-> g1200,
             Velocity |-> VelocityOf(g240, g480, g1200)] @@ d[i]]

(***************************************************************************)
(* velocity_data.dropna(inplace=True): drop every row holding a NaN in any *)
(* column (how='any' over all columns is the default).                     *)
(***************************************************************************)
HasNaN(r) == \E f \in DOMAIN r \ {"Date"} : IsNaN(r[f])

\* fillna(0) in place of dropna: the rows stay, their NaN become 0
fillna_zero(d) ==
    [i \in 1..Len(d) |->
        [f \in DOMAIN d[i] |->
            IF f # "Date" /\ IsNaN(d[i][f]) THEN Zero ELSE d[i][f]]]

dropna(d) == SelectSeq(d, LAMBDA r : ~HasNaN(r))

(***************************************************************************)
(* velocity_data[[...]]: a new frame of the columns named.                 *)
(***************************************************************************)
Shown == {"Date", "Close", "G240", "G480", "G1200", "Velocity"}

Columns(d, cols) == [i \in 1..Len(d) |-> [f \in cols |-> d[i][f]]]

(***************************************************************************)
(* to_excel: dates made naive in the frame it was given (the column        *)
(* selection, a copy), which is then written to the workbook.              *)
(***************************************************************************)
tz_localize_none(date) == [date EXCEPT !.tz = "naive"]

to_excel(df) ==
    [i \in 1..Len(df) |-> [df[i] EXCEPT !.Date = tz_localize_none(df[i].Date)]]

(***************************************************************************)
(* get_trading_recommendation: the if/elif chain; falls off the end        *)
(* (returns None) when no branch is taken.                                 *)
(***************************************************************************)
\* the top branch written with >= (150 falls into the bubble zone)
get_trading_recommendation_ge150(v) ==
    IF Gt(v, 150) \/ v = Fin(150) THEN "Bubble"
    ELSE IF Gt(v, 100) /\ Le(v, 150) THEN "Overheated"
    ELSE IF Gt(v, 50) /\ Le(v, 100) THEN "Normal"
    ELSE IF Gt(v, 0) /\ Le(v, 50) THEN "Slow"
    ELSE IF Le(v, 0) THEN "Retreat"
    ELSE "None"

\* the ranges written left-closed (100 <= v < 150, 50 <= v < 100, ...)
get_trading_recommendation_left_closed(v) ==
    IF Gt(v, 150) \/ v = Fin(150) THEN "Bubble"
    ELSE IF (Gt(v, 100) \/ v = Fin(100)) /\ Le(v, 150) THEN "Overheated"
    ELSE IF (Gt(v, 50) \/ v = Fin(50)) /\ Le(v, 100) THEN "Normal"
    ELSE IF (Gt(v, 0) \/ v = Fin(0)) /\ Le(v, 50) THEN "Slow"
    ELSE IF Le(v, 0) THEN "Retreat"
    ELSE "None"

get_trading_recommendation(v) ==
    IF Gt(v, 150) THEN "Bubble"
    ELSE IF Gt(v, 100) /\ Le(v, 150) THEN "Overheated"
    ELSE IF Gt(v, 50) /\ Le(v, 100) THEN "Normal"
    ELSE IF Gt(v, 0) /\ Le(v, 50) THEN "Slow"
    ELSE IF Le(v, 0) THEN "Retreat"
    ELSE "None"

(***************************************************************************)
(* velocity_data.iloc[-1]: the last row (IndexError on an empty frame,     *)
(* which is the LatestFails step).                                         *)
(***************************************************************************)
iloc_last(d) == d[Len(d)]

(***************************************************************************)
(* The script, top to bottom.                                              *)
(*   emitted  what the run has put on the page so far                      *)
(***************************************************************************)
Init ==
    /\ source \in Sources
    /\ data = <<>>
    /\ pc = "fetch"
    /\ chart = <<>>
    /\ table = <<>>
    /\ artifact = <<>>
    /\ latest_data = <<>>
    /\ velocity = NaN
    /\ recommendation = "None"
    /\ emitted = {}

\* index_data = get_index_data(selected_ticker)
Fetch ==
    /\ pc = "fetch"
    /\ data' = History(source)
    /\ pc' = "calculate"
    /\ UNCHANGED <<source, chart, table, artifact, latest_data, velocity,
                   recommendation, emitted>>

\* velocity_data = calculate_velocity(index_data)
CalculateVelocity ==
    /\ pc = "calculate"
    /\ data' = calculate_velocity(data)
    /\ pc' = "dropna"
    /\ UNCHANGED <<source, chart, table, artifact, latest_data, velocity,
                   recommendation, emitted>>

\* velocity_data.dropna(inplace=True)
DropNa ==
    /\ pc = "dropna"
    /\ data' = dropna(data)
    /\ pc' = "chart"
    /\ UNCHANGED <<source, chart, table, artifact, latest_data, velocity,
                   recommendation, emitted>>

\* st.line_chart(velocity_data[['Velocity']])
LineChart ==
    /\ pc = "chart"
    /\ chart' = [i \in 1..Len(data) |-> data[i].Velocity]
    /\ emitted' = emitted \cup {"chart"}
    /\ pc' = "table"
    /\ UNCHANGED <<source, data, table, artifact, latest_data, velocity,
                   recommendation>>

\* st.dataframe(velocity_data[[...]])
DataFrameTable ==
    /\ pc = "table"
    /\ table' = Columns(data, Shown)
    /\ emitted' = emitted \cup {"table"}
    /\ pc' = "export"
    /\ UNCHANGED <<source, data, chart, artifact, latest_data, velocity,
                   recommendation>>

\* df_xlsx = to_excel(velocity_data[[...]]); st.download_button(...)
Export ==
    /\ pc = "export"
    /\ artifact' = to_excel(Columns(data, Shown))
    /\ emitted' = emitted \cup {"export"}
    /\ pc' = "latest"
    /\ UNCHANGED <<source, data, chart, table, latest_data, velocity,
                   recommendation>>

\* latest_data = velocity_data.iloc[-1], and the st.write lines showing it
Latest ==
    /\ pc = "latest"
    /\ Len(data) > 0
    /\ latest_data' = <<iloc_last(data)>>
    /\ emitted' = emitted \cup {"snapshot"}
    /\ pc' = "recommend"
    /\ UNCHANGED <<source, data, chart, table, artifact, velocity,
                   recommendation>>

\* velocity_data.iloc[-1] on an empty frame raises IndexError: the run ends
LatestFails ==
    /\ pc = "latest"
    /\ Len(data) = 0
    /\ emitted' = emitted \cup {"error"}
    /\ pc' = "failed"
    /\ UNCHANGED <<source, data, chart, table, artifact, latest_data,
                   velocity, recommendation>>

\* st.write(get_trading_recommendation(latest_data['Velocity']))
Recommend ==
    /\ pc = "recommend"
    /\ velocity' = latest_data[1].Velocity
    /\ recommendation' = get_trading_recommendation(latest_data[1].Velocity)
    /\ emitted' = emitted \cup {"zone"}
    /\ pc' = "done"
    /\ UNCHANGED <<source, data, chart, table, artifact, latest_data>>

Next ==
    \/ Fetch
    \/ CalculateVelocity
    \/ DropNa
    \/ LineChart
    \/ DataFrameTable
    \/ Export
    \/ Latest
    \/ LatestFails
    \/ Recommend

Spec == Init /\ [][Next]_vars
(***************************************************************************)
(* get_trading_recommendation on its own: called on a velocity drawn from  *)
(* Probes.                                                                 *)
(***************************************************************************)
\* the float next above and next below a positive float that is no power of 2
NextUp(x) == Add(x, <<1, <<1>>, x[3] + NatBitLen(x[2]) - Precision>>)
NextDown(x) == Sub(x, <<1, <<1>>, x[3] + NatBitLen(x[2]) - Precision>>)

Probes ==
    {Div(Fin(n), Fin(d)) : n \in (-ProbeMax)..ProbeMax, d \in 1..ProbeDen}
        \cup {PosInf, NegInf, NaN, NegZero}
        \cup {NextUp(Fin(k)) : k \in {50, 100, 150}}
        \cup {NextDown(Fin(k)) : k \in {50, 100, 150}}
        \cup {VelocityOf(Fin(200), Fin(50), Fin(50)),
              VelocityOf(Fin(-100), Fin(293), Fin(-43)),
              VelocityOf(Fin(-100), Fin(194), Fin(-94)),
              Neg(VelocityOf(Fin(-100), Fin(194), Fin(-94)))}

InitClassify ==
    /\ source = [len |-> 0, pat |-> BasePattern, gap |-> {}]
    /\ data = <<>>
    /\ pc = "call"
    /\ chart = <<>>
    /\ table = <<>>
    /\ artifact = <<>>
    /\ latest_data = <<>>
    /\ velocity \in Probes
    /\ recommendation = "None"
    /\ emitted = {}

Classify ==
    /\ pc = "call"
    /\ recommendation' = get_trading_recommendation(velocity)
    /\ pc' = "returned"
    /\ UNCHANGED <<source, data, chart, table, artifact, latest_data,
                   velocity, emitted>>

NextClassify == Classify

SpecClassify == InitClassify /\ [][NextClassify]_vars

(***************************************************************************)
(* The threshold table of the five zones, read off as predicates on the    *)
(* sign of v - k (the sign of a float difference is that of the exact      *)
(* difference: a difference of doubles underflows to no zero).             *)
(***************************************************************************)
Above(v, k) == SignOf(Sub(v, Fin(k))) > 0
AtMost(v, k) == ~IsNaN(v) /\ SignOf(Sub(v, Fin(k))) <= 0

Zones == {"Bubble", "Overheated", "Normal", "Slow", "Retreat"}

InZone(z, v) ==
    CASE z = "Bubble"     -> Above(v, 150)
      [] z = "Overheated" -> Above(v, 100) /\ AtMost(v, 150)
      [] z = "Normal"     -> Above(v, 50) /\ AtMost(v, 100)
      [] z = "Slow"       -> Above(v, 0) /\ AtMost(v, 50)
      [] z = "Retreat"    -> AtMost(v, 0)

\* C1: for every defined (non-NaN) velocity the classifier returns one of
\* the five zones, exactly one row of the threshold table holds of the
\* velocity, and the zone returned is that row's; 150 is Overheated, the
\* float next above 150 and 150.5 are Bubble, 50 is Slow and 0 is Retreat.
C1_ClassifierFollowsTable ==
    (pc = "returned" /\ ~IsNaN(velocity)) =>
        /\ recommendation \in Zones
        /\ Cardinality({z \in Zones : InZone(z, velocity)}) = 1
        /\ InZone(recommendation, velocity)
        /\ velocity = Fin(150) => recommendation = "Overheated"
        /\ velocity = NextUp(Fin(150)) => recommendation = "Bubble"
        /\ velocity = Div(Fin(301), Fin(2)) => recommendation = "Bubble"
        /\ velocity = Fin(50) => recommendation = "Slow"
        /\ velocity = Fin(0) => recommendation = "Retreat"

C1_Witness ==
    /\ pc = "returned"
    /\ velocity = NextUp(Fin(150))
    /\ recommendation = "Bubble"

\* C2 as claimed: the classifier maps the velocity 100 to Overheated.
C2_HundredIsOverheated ==
    (pc = "returned" /\ velocity = Fin(100)) => recommendation = "Overheated"

\* C2 as the code has it: the classifier maps the velocity 100 to Normal
\* (the range 50 < v <= 100 is closed on the right), and the float next
\* above it, 100.00000000000001, to Overheated.
C2_HundredIsNormal ==
    /\ (pc = "returned" /\ velocity = Fin(100)) => recommendation = "Normal"
    /\ (pc = "returned" /\ velocity = NextUp(Fin(100))) =>
           recommendation = "Overheated"

C2_Witness ==
    /\ pc = "returned"
    /\ velocity = Fin(100)
    /\ recommendation = "Normal"

(***************************************************************************)
(* The series a run was given, and what the claims say of it.              *)
(***************************************************************************)
Windows == {W240, W480, W1200}

GrowthField(r, w) ==
    CASE w = W240  -> r.G240
      [] w = W480  -> r.G480
      [] w = W1200 -> r.G1200

AllPositive(in) == \A i \in 1..Len(in) : SignOf(in[i].Close) > 0

AfterFilter ==
    pc \in {"chart", "table", "export", "latest", "recommend", "done", "failed"}

\* the claimed growth of a close c over a base b, in float arithmetic, for
\* the prices a series is built from
Percent ==
    [c \in {Fin(p) : p \in Prices}, b \in {Fin(p) : p \in Prices} |->
        Mul(Div(Sub(c, b), b), Fin(100))]

\* the float x is the rational n/d (integers, 0 < d < Base) to 50 bits:
\* |x - n/d| * 2^50 <= |n/d|, decided in exact arithmetic
NearRatio(x, n, d) ==
    /\ IsFinite(x)
    /\ SignOf(x) = Sign(n)
    /\ LET scaled == NatShl(NatMulSmall(x[2], d), Max(0, x[3]))
           exact  == NatShl(NatOfInt(Abs(n)), Max(0, -x[3]))
           diff   == IF NatCmp(scaled, exact) >= 0
                     THEN NatSub(scaled, exact) ELSE NatSub(exact, scaled)
       IN  NatCmp(NatShl(diff, 50), exact) <= 0

\* C3: after calculate_velocity, for every window W and index i, growthW[i]
\* is undefined when i < W, and is defined and equals (close[i] -
\* close[i-W]) / close[i-W] * 100 (in float arithmetic, which is that
\* quotient of the reals to 50 bits) when i >= W and close[i-W] # 0; for a
\* series of positive closes it is undefined exactly for the first W
\* records.
C3_GrowthLaw ==
    pc = "dropna" =>
        LET in  == History(source)
            pos == AllPositive(in)
        IN  /\ Len(data) = Len(in)
            /\ \A c \in Prices : \A b \in Prices \ {0} :
                 NearRatio(Percent[Fin(c), Fin(b)], 100 * (c - b), b)
            /\ \A i \in 1..Len(data) : \A w \in Windows :
                 LET g == GrowthField(data[i], w)
                 IN  /\ i - 1 < w => IsNaN(g)
                     /\ (i - 1 >= w /\ ~IsZero(in[i - w].Close)) =>
                            /\ ~IsNaN(g)
                            /\ g = Percent[in[i].Close, in[i - w].Close]
                     /\ pos => (IsNaN(g) <=> i - 1 < w)

\* the record of index 1200 has the growth of a close 100 over its base
\* 300, which is -66.66666666666666 (the quotient rounded, then the
\* product rounded)
C3_Witness ==
    /\ pc = "dropna"
    /\ Len(data) > W1200
    /\ IsNaN(data[W1200].G1200)
    /\ data[W1200 + 1].G1200 = Fin(-50)
    /\ data[W1200 + 1].G240 = Percent[Fin(100), Fin(300)]
    /\ data[W1200 + 1].G240 # Div(Fin(-200), Fin(3))

\* the unweighted mean as claimed: the sum of the three, divided by 3
Mean(g240, g480, g1200) == Div(Add(Add(g240, g480), g1200), Fin(3))

\* the sum of the three thirds, as the Aggregator's contract has it
SumOfThirds(g240, g480, g1200) ==
    Add(Add(Div(g240, Fin(3)), Div(g480, Fin(3))), Div(g1200, Fin(3)))

Magnitude(x) == <<Abs(x[1]), x[2], x[3]>>

\* v is the mean of the three to within rounding: |v - mean| is at most
\* 2^-50 * (|g240| + |g480| + |g1200|); the mean itself when one is infinite
NearMean(v, g240, g480, g1200) ==
    IF IsFinite(g240) /\ IsFinite(g480) /\ IsFinite(g1200)
    THEN /\ IsFinite(v)
         /\ FCmp(Magnitude(Sub(v, Mean(g240, g480, g1200))),
                 Mul(<<1, <<1>>, -50>>,
                     Add(Add(Magnitude(g240), Magnitude(g480)),
                         Magnitude(g1200)))) <= 0
    ELSE v = Mean(g240, g480, g1200)

\* the three fields of a record are there and velocity is their mean
\* exactly, or one of them is undefined and so is velocity
AggregatedRecord(r) ==
    /\ ~IsNaN(r.Velocity) =>
          /\ ~IsNaN(r.G240) /\ ~IsNaN(r.G480) /\ ~IsNaN(r.G1200)
          /\ r.Velocity = Mean(r.G240, r.G480, r.G1200)
    /\ (IsNaN(r.G240) \/ IsNaN(r.G480) \/ IsNaN(r.G1200)) => IsNaN(r.Velocity)

\* the same with velocity the float sum of the three thirds, which is the
\* mean to within rounding
AggregatedByThirds(r) ==
    /\ ~IsNaN(r.Velocity) =>
          /\ ~IsNaN(r.G240) /\ ~IsNaN(r.G480) /\ ~IsNaN(r.G1200)
          /\ r.Velocity = SumOfThirds(r.G240, r.G480, r.G1200)
          /\ NearMean(r.Velocity, r.G240, r.G480, r.G1200)
    /\ (IsNaN(r.G240) \/ IsNaN(r.G480) \/ IsNaN(r.G1200)) => IsNaN(r.Velocity)

\* C4 as claimed: after calculate_velocity, velocity[i] is defined if and
\* only if i >= 1200; when defined the three growth fields are defined and
\* velocity is (growth240 + growth480 + growth1200) / 3; an undefined
\* growth field makes it undefined.
C4_VelocityIffIndex ==
    pc = "dropna" =>
        \A i \in 1..Len(data) :
            /\ ~IsNaN(data[i].Velocity) <=> i - 1 >= W1200
            /\ AggregatedRecord(data[i])

\* C4 as the code has it: velocity[i] is defined only if i >= 1200, and for
\* a series of positive closes if and only if i >= 1200 (a zero close over
\* a zero base is 0/0, which leaves the record undefined); when defined the
\* three growth fields are defined and velocity is growth240/3 +
\* growth480/3 + growth1200/3 in float arithmetic, which is their mean to
\* within rounding and not always the float (growth240 + growth480 +
\* growth1200) / 3; an undefined growth field makes it undefined.
C4_VelocityDefined ==
    pc = "dropna" =>
        LET pos == AllPositive(History(source))
        IN  \A i \in 1..Len(data) :
                /\ ~IsNaN(data[i].Velocity) => i - 1 >= W1200
                /\ pos => (~IsNaN(data[i].Velocity) <=> i - 1 >= W1200)
                /\ AggregatedByThirds(data[i])

\* growth rates 200, 50 and 50 (a close 300 over the bases 100, 200, 200)
\* aggregate to 100.00000000000001, the float next above their mean 100
C4_Witness ==
    /\ pc = "dropna"
    /\ Len(data) > W1200
    /\ IsNaN(data[W1200].Velocity)
    /\ ~IsNaN(data[W1200].G240)
    /\ data[W1200 + 1].G240 = Fin(200)
    /\ data[W1200 + 1].Velocity = NextUp(Fin(100))
    /\ Mean(data[W1200 + 1].G240, data[W1200 + 1].G480, data[W1200 + 1].G1200)
          = Fin(100)

\* record r of the output has a zero close at the base of one of its windows
ZeroBase(in, r) ==
    \E w \in Windows :
        /\ r.Date.day >= w
        /\ IsZero(in[r.Date.day - w + 1].Close)

\* C5: when close[i-W] = 0, growthW[i] is undefined whatever close[i] is,
\* so velocity[i] is undefined too, and record i is removed by the filter:
\* it is neither in the output nor the current snapshot.
C5_ZeroBaseIsUndefined ==
    LET in == History(source)
    IN  /\ pc = "dropna" =>
              \A i \in 1..Len(data) : \A w \in Windows :
                  (i > w /\ IsZero(in[i - w].Close)) =>
                      /\ IsNaN(GrowthField(data[i], w))
                      /\ IsNaN(data[i].Velocity)
        /\ AfterFilter =>
              /\ \A k \in 1..Len(data) : ~ZeroBase(in, data[k])
              /\ \A k \in 1..Len(latest_data) : ~ZeroBase(in, latest_data[k])

\* C6: every series of fewer than 1200 records leaves the filtered sequence
\* empty and fails, and every series of positive closes with 1200 or more
\* records yields a non-empty filtered sequence and a current snapshot.
C6_FailsIffUnder1200 ==
    AfterFilter =>
        /\ source.len < W1200 =>
              Len(data) = 0 /\ pc \notin {"recommend", "done"}
        /\ (source.len >= W1200 /\ AllPositive(History(source))) =>
              Len(data) > 0 /\ pc # "failed"
        /\ pc \in {"recommend", "done"} => Len(latest_data) = 1

\* C7: in a run that ends in the failure for an empty filtered sequence, no
\* chart, table, export artifact, snapshot or zone is emitted at any point.
C7_NoOutputOnFailure ==
    pc = "failed" =>
        emitted \cap {"chart", "table", "export", "snapshot", "zone"} = {}

\* C8: when the pipeline succeeds, the output holds exactly the input
\* records whose velocity is defined, in ascending order and with the
\* values calculate_velocity gave them; the snapshot is the last of them
\* and the zone reported is the threshold table's zone of its velocity,
\* which is defined.
C8_OutputIsDefinedRecords ==
    pc = "done" =>
        LET annot == calculate_velocity(History(source))
        IN  /\ \A k \in 1..Len(data) :
                 /\ data[k] = annot[data[k].Date.day + 1]
                 /\ ~IsNaN(data[k].Velocity)
            /\ \A k \in 1..(Len(data) - 1) :
                 data[k].Date.day < data[k + 1].Date.day
            /\ \A i \in 1..Len(annot) :
                 ~IsNaN(annot[i].Velocity) =>
                     \E k \in 1..Len(data) : data[k].Date.day = i - 1
            /\ table = Columns(data, Shown)
            /\ latest_data = <<data[Len(data)]>>
            /\ velocity = latest_data[1].Velocity
            /\ ~IsNaN(velocity)
            /\ recommendation \in Zones
            /\ InZone(recommendation, velocity)

\* what the run has produced: the rows of the table, whether the run got
\* through, the snapshot and the zone
RunOutput ==
    [ok       |-> pc = "done",
     table    |-> table,
     snapshot |-> latest_data,
     zone     |-> recommendation]

\* what the steps of the pipeline (calculate_velocity, dropna, iloc[-1],
\* get_trading_recommendation) give for the frame d
PipelineOutput(d) ==
    LET v == dropna(calculate_velocity(d))
    IN  [ok       |-> Len(v) > 0,
         table    |-> Columns(v, Shown),
         snapshot |-> IF Len(v) > 0 THEN <<iloc_last(v)>> ELSE <<>>,
         zone     |-> IF Len(v) > 0
                      THEN get_trading_recommendation(iloc_last(v).Velocity)
                      ELSE "None"]

\* the series of the dates and close prices of s in which the provider has
\* every other value
DatesAndCloses(s) == [s EXCEPT !.gap = {}]

\* C9: at the end of a run, the pipeline gives the run's output (i) for the
\* input series once more, (ii) for the series object the run has annotated
\* (index_data, which is the object velocity_data), and (iii) for any series
\* of the same dates and close prices.
C9_SameOutputEveryRun ==
    pc \in {"done", "failed"} =>
        /\ PipelineOutput(History(source)) = RunOutput
        /\ PipelineOutput(data) = RunOutput
        /\ PipelineOutput(History(DatesAndCloses(source))) = RunOutput

\* the rows of d2 carry, in every column they have in common, the values
\* the rows of the same date have in d (the row is looked up where it is in
\* a frame dated day by day, and anywhere in the frame otherwise)
SameValues(d, d2) ==
    \A k \in 1..Len(d2) :
        LET r2 == d2[k]
            g  == r2.Date.day - d[1].Date.day + 1
            at == IF g \in 1..Len(d) /\ d[g].Date.day = r2.Date.day
                  THEN {g} ELSE 1..Len(d)
        IN  \E j \in at :
                /\ d[j].Date.day = r2.Date.day
                /\ \A f \in (DOMAIN r2 \cap DOMAIN d[j]) \ {"Date"} :
                      d[j][f] = r2[f]

\* C10: no step after the fetch changes a value an earlier step has
\* written: every record kept by a step has the close of the input and the
\* growth and velocity values it had before the step, and so have the rows
\* shown in the table, written to the export and taken as the snapshot.
C10_WrittenValuesStay ==
    [][pc # "fetch" =>
          /\ SameValues(data, data')
          /\ SameValues(data, table')
          /\ SameValues(data, artifact')
          /\ SameValues(data, latest_data')
          /\ LET in == History(source)
             IN  \A k \in 1..Len(data') :
                     data'[k].Close = in[data'[k].Date.day + 1].Close]_vars

C10_Witness ==
    /\ pc = "done"
    /\ Len(data) >= 2
    /\ artifact[1].Date.tz = "naive"
    /\ data[1].Date.tz # "naive"
    /\ artifact[1].Velocity = data[1].Velocity
    /\ artifact[1].G240 = data[1].G240

====
